---------------------------- MODULE Spec2Model ----------------------------
(***************************************************************************)
(* deadonfilm: a dataset loader (two variants) that fills the dead_actors  *)
(* table, and a lookup service (search, died) that reads it.               *)
(*                                                                         *)
(* Text values are sequences of character codes, so that strip(), the      *)
(* removal of "nm", the cast to integer and the string order of the sort   *)
(* are computed and not assumed.  None is the one-element sequence <<-1>>. *)
(***************************************************************************)
EXTENDS Integers, Sequences, FiniteSets, TLC

VARIABLES
    tableExists,   \* storage: does the table dead_actors exist
    dead_actors,   \* storage: the committed rows of dead_actors, in heap order
    variant,       \* loader: which fill_db.py runs ("incremental" | "destructive")
    lpc,           \* loader: position of the script
    file,          \* loader: the data records of ./name.basics.tsv
    idx,           \* loader: the record the csv loop is at
    rows,          \* loader (destructive): the list handed to the bulk insert
    error,         \* loader: the exception that ended the run
    before,        \* history: storage when the current run started
    prev,          \* history: variant and dataset of the last run that downloaded
    rerun,         \* history: this run downloaded what the previous run downloaded
    req,           \* service: the request handled last and what the provider gave
    resp,          \* service: the response to it
    rkind,         \* scheduling: each request's endpoint
    rpc,           \* scheduling: each request's position
    loop           \* scheduling: the request whose code occupies the event loop

storageVars == <<tableExists, dead_actors>>
loaderVars  == <<variant, lpc, file, idx, rows, error, before, prev, rerun>>
serviceVars == <<req, resp>>
schedVars   == <<rkind, rpc, loop>>
vars == <<tableExists, dead_actors, variant, lpc, file, idx, rows, error,
          before, prev, rerun, req, resp, rkind, rpc, loop>>

---------------------------------------------------------------------------
(* Bounds *)

\* records in a dataset
MaxRows == 2
\* entries in a movie's cast
MaxCast == 3
\* rows in the table the service reads
MaxStored == 3
\* results of a title search
MaxResults == 3
\* requests in flight
NumRequests == 3

---------------------------------------------------------------------------
(* Text *)

None == <<-1>>
Empty == <<>>
\* r"\N": a backslash and an N
Sentinel == <<92, 78>>
\* "nm"
NmPrefix == <<110, 109>>

\* the ASCII characters str.strip() removes
IsSpace(c) == c \in {9, 10, 11, 12, 13, 28, 29, 30, 31, 32}

RECURSIVE LStrip(_)
LStrip(s) == IF s # <<>> /\ IsSpace(Head(s)) THEN LStrip(Tail(s)) ELSE s

RECURSIVE RStrip(_)
RStrip(s) ==
    IF s # <<>> /\ IsSpace(s[Len(s)]) THEN RStrip(SubSeq(s, 1, Len(s) - 1)) ELSE s

\* str.strip()
Strip(s) == RStrip(LStrip(s))

StartsWith(s, p) == Len(s) >= Len(p) /\ SubSeq(s, 1, Len(p)) = p

\* str.replace(old, new), old non-empty: left to right, non-overlapping
RECURSIVE Replace(_, _, _)
Replace(s, old, new) ==
    IF s = <<>> THEN <<>>
    ELSE IF StartsWith(s, old)
         THEN new \o Replace(SubSeq(s, Len(old) + 1, Len(s)), old, new)
         ELSE <<Head(s)>> \o Replace(Tail(s), old, new)

\* the integer a string of decimal digits is read as (PostgreSQL's cast of the
\* quoted parameter to the integer column; Python's int())
RECURSIVE ToInteger(_)
ToInteger(s) ==
    IF s = <<>> THEN 0
    ELSE 10 * ToInteger(SubSeq(s, 1, Len(s) - 1)) + (s[Len(s)] - 48)

\* Python's str order: by character code, a proper prefix is smaller
RECURSIVE LexLess(_, _)
LexLess(a, b) ==
    IF b = <<>> THEN FALSE
    ELSE IF a = <<>> THEN TRUE
    ELSE IF Head(a) # Head(b) THEN Head(a) < Head(b)
    ELSE LexLess(Tail(a), Tail(b))

---------------------------------------------------------------------------
(* The dataset: name.basics.tsv *)

FieldNames ==
    <<"nconst", "primaryName", "birthYear", "deathYear", "primaryProfession", "knownForTitles">>

FieldSet == {FieldNames[i] : i \in 1..Len(FieldNames)}

FieldIndex(k) == CHOOSE i \in 1..Len(FieldNames) : FieldNames[i] = k

\* csv.DictReader: the k-th field under the k-th header name, None (restval) for
\* the names a short record has no field for
DictRow(fields) ==
    [k \in FieldSet |->
        IF FieldIndex(k) <= Len(fields) THEN fields[FieldIndex(k)] ELSE None]

\* for key in row.keys(): if row[key] == r"\N": row[key] = ""
SubstituteSentinel(row) ==
    [k \in DOMAIN row |-> IF row[k] = Sentinel THEN Empty ELSE row[k]]

\* row["deathYear"].strip() raises AttributeError on None
StripRaises(row) == row["deathYear"] = None

KeepUnstripped(row) == row["deathYear"] # Empty

\* if row["deathYear"].strip() != ""
Keep(row) == Strip(row["deathYear"]) # Empty

\* the values of the INSERT; person_id reaches the integer column as the text
\* left of nconst once "nm" is removed
Values(row) ==
    [person_id |-> ToInteger(Replace(row["nconst"], NmPrefix, Empty)),
     birth     |-> row["birthYear"],
     death     |-> row["deathYear"],
     name      |-> row["primaryName"]]

\* sample texts
Y1899 == <<49, 56, 57, 57>>
Y1987 == <<49, 57, 56, 55>>
Y1995 == <<49, 57, 57, 53>>
Y987  == <<57, 56, 55>>
Blank == <<32>>
Fred   == <<70>>
Ginger == <<71>>
Alan   == <<65>>
Bob    == <<66>>
Actor  == <<97>>
Titles == <<116>>
Nm01 == <<110, 109, 48, 49>>
Nm1  == <<110, 109, 49>>
Nm2  == <<110, 109, 50>>
Nm3  == <<110, 109, 51>>

\* the records the datasets are made of
SampleRecords ==
    { <<Nm01, Fred, Y1899, Y1987, Actor, Titles>>,        \* kept, person 1
      <<Nm1, Ginger, Sentinel, Y1995, Actor, Titles>>,    \* kept, person 1 again
      <<Nm2, Alan, Y1899, Sentinel, Actor, Titles>>,      \* no death year
      <<Nm3, Bob, Sentinel, Blank, Sentinel, Sentinel>>,  \* a blank death year
      <<Nm3, Bob, Y1899, Y987>>,                          \* kept, person 3, short
      <<Nm2, Alan>> }                                     \* no deathYear field

RECURSIVE SeqsUpTo(_, _)
SeqsUpTo(S, n) ==
    IF n = 0 THEN {<<>>}
    ELSE LET shorter == SeqsUpTo(S, n - 1)
         IN  shorter \cup {Append(s, x) : s \in shorter, x \in S}

Datasets == SeqsUpTo(SampleRecords, MaxRows)

---------------------------------------------------------------------------
(* Storage *)

PersonIds(table) == {table[i].person_id : i \in 1..Len(table)}

InsertAlways(table, v) == Append(table, v)

\* INSERT ... ON CONFLICT (person_id) DO NOTHING
InsertOnConflictDoNothing(table, v) ==
    IF v.person_id \in PersonIds(table) THEN table ELSE Append(table, v)

\* the primary key of DeadActor: a bulk insert with a repeated person_id fails
ViolatesPrimaryKey(vs) ==
    \E i, j \in 1..Len(vs) : i < j /\ vs[i].person_id = vs[j].person_id

---------------------------------------------------------------------------
(* The loader *)

Terminated == lpc \in {"idle", "done", "failed"}

\* a run is a new process
StartRun(v) ==
    /\ Terminated
    /\ variant' = v
    /\ lpc' = "download"
    /\ error' = "none"
    /\ before' = [exists |-> tableExists, rows |-> dead_actors]
    /\ rerun' = FALSE
    /\ idx' = 0
    /\ rows' = <<>>
    /\ UNCHANGED <<tableExists, dead_actors, file, prev,
                   serviceVars, schedVars>>

\* response.raise_for_status()
DownloadFail ==
    /\ lpc = "download"
    /\ lpc' = "failed"
    /\ error' = "HTTPError"
    /\ UNCHANGED <<tableExists, dead_actors, variant, file, idx, rows, before, prev, rerun,
                   serviceVars, schedVars>>

Download(ds) ==
    /\ lpc = "download"
    /\ file' = ds
    /\ lpc' = "downloaded"
    /\ rerun' = (prev = [variant |-> variant, file |-> ds])
    /\ prev' = [variant |-> variant, file |-> ds]
    /\ UNCHANGED <<tableExists, dead_actors, variant, idx, rows, error, before,
                   serviceVars, schedVars>>

\* CREATE TABLE IF NOT EXISTS dead_actors
CreateTableIfNotExists ==
    /\ lpc = "downloaded" /\ variant = "incremental"
    /\ tableExists' = TRUE
    /\ dead_actors' = IF tableExists THEN dead_actors ELSE <<>>
    /\ lpc' = "loop"
    /\ idx' = 1
    /\ UNCHANGED <<variant, file, rows, error, before, prev, rerun,
                   serviceVars, schedVars>>

\* one pass of the csv loop, autocommit
LoopIncremental ==
    /\ lpc = "loop" /\ variant = "incremental" /\ idx <= Len(file)
    /\ LET row == SubstituteSentinel(DictRow(file[idx]))
       IN  IF StripRaises(row)
           THEN /\ lpc' = "failed"
                /\ error' = "AttributeError"
                /\ UNCHANGED <<dead_actors, idx>>
           ELSE /\ dead_actors' =
                      IF Keep(row)
                      THEN InsertOnConflictDoNothing(dead_actors, Values(row))
                      ELSE dead_actors
                /\ idx' = idx + 1
                /\ UNCHANGED <<lpc, error>>
    /\ UNCHANGED <<tableExists, variant, file, rows, before, prev, rerun,
                   serviceVars, schedVars>>

\* os.remove(OUTPUT_FILENAME); print("Done!")
FinishIncremental ==
    /\ lpc = "loop" /\ variant = "incremental" /\ idx > Len(file)
    /\ lpc' = "done"
    /\ UNCHANGED <<tableExists, dead_actors, variant, file, idx, rows, error, before, prev, rerun,
                   serviceVars, schedVars>>

\* DeadActor.__table__.drop(engine, checkfirst=True)
DropTable ==
    /\ lpc = "downloaded" /\ variant = "destructive"
    /\ tableExists' = FALSE
    /\ dead_actors' = <<>>
    /\ lpc' = "dropped"
    /\ UNCHANGED <<variant, file, idx, rows, error, before, prev, rerun,
                   serviceVars, schedVars>>

\* DeadActor.__table__.create(engine)
CreateTable ==
    /\ lpc = "dropped"
    /\ tableExists' = TRUE
    /\ dead_actors' = <<>>
    /\ lpc' = "loop"
    /\ idx' = 1
    /\ rows' = <<>>
    /\ UNCHANGED <<variant, file, error, before, prev, rerun,
                   serviceVars, schedVars>>

\* one pass of the csv loop: rows.append(...)
LoopDestructive ==
    /\ lpc = "loop" /\ variant = "destructive" /\ idx <= Len(file)
    /\ LET row == SubstituteSentinel(DictRow(file[idx]))
       IN  IF StripRaises(row)
           THEN /\ lpc' = "failed"
                /\ error' = "AttributeError"
                /\ UNCHANGED <<rows, idx>>
           ELSE /\ rows' = IF Keep(row) THEN Append(rows, Values(row)) ELSE rows
                /\ idx' = idx + 1
                /\ UNCHANGED <<lpc, error>>
    /\ UNCHANGED <<tableExists, dead_actors, variant, file, before, prev, rerun,
                   serviceVars, schedVars>>

\* session.execute(insert(DeadActor.__table__), rows); session.commit()
BulkInsert ==
    /\ lpc = "loop" /\ variant = "destructive" /\ idx > Len(file)
    /\ IF ViolatesPrimaryKey(rows)
       THEN /\ lpc' = "failed"
            /\ error' = "IntegrityError"
            /\ UNCHANGED dead_actors
       ELSE /\ lpc' = "done"
            /\ dead_actors' = dead_actors \o rows
            /\ UNCHANGED error
    /\ UNCHANGED <<tableExists, variant, file, idx, rows, before, prev, rerun,
                   serviceVars, schedVars>>

LoaderNext ==
    \/ \E v \in {"incremental", "destructive"} : StartRun(v)
    \/ DownloadFail
    \/ \E ds \in Datasets : Download(ds)
    \/ CreateTableIfNotExists
    \/ LoopIncremental
    \/ FinishIncremental
    \/ DropTable
    \/ CreateTable
    \/ LoopDestructive
    \/ BulkInsert

---------------------------------------------------------------------------
(* The lookup service *)

\* the provider's answer to get_movie: None, or a movie whose data may lack "cast"
NoMovie == [isNone |-> TRUE, hasCast |-> FALSE, cast |-> <<>>]

Movie(hasCast, cast) == [isNone |-> FALSE, hasCast |-> hasCast, cast |-> cast]

\* str(actor.currentRole): the name of the role
Str(role) == role.name

NoCastOrEmpty(movie) == ~movie.hasCast \/ movie.cast = <<>>

\* actors = movie.data.get("cast", None); if actors is None
NoCast(movie) == ~movie.hasCast

ActorsByIdFirst(actors) ==
    LET keys == {ToInteger(actors[i].id) : i \in 1..Len(actors)}
    IN  [k \in keys |->
            actors[CHOOSE i \in 1..Len(actors) :
                     /\ ToInteger(actors[i].id) = k
                     /\ \A j \in 1..(i - 1) : ToInteger(actors[j].id) # k]]

\* for actor in actors: actors_by_id[int(actor.getID())] = actor
RECURSIVE ActorsById(_)
ActorsById(actors) ==
    IF actors = <<>> THEN [k \in {} |-> 0]
    ELSE LET earlier == ActorsById(SubSeq(actors, 1, Len(actors) - 1))
             actor   == actors[Len(actors)]
             key     == ToInteger(actor.id)
         IN  [k \in (DOMAIN earlier) \cup {key} |->
                 IF k = key THEN actor ELSE earlier[k]]

InKeys(person, keys) == person.person_id \in keys

\* select(DeadActor).filter(DeadActor.person_id.in_(keys)): the matching rows
SelectIn(table, keys) == SelectSeq(table, LAMBDA person : InKeys(person, keys))

\* the orders in which a SELECT without ORDER BY may hand back n rows
ScanOrders(n) == {f \in [1..n -> 1..n] : \A i, j \in 1..n : f[i] = f[j] => i = j}

Scanned(matching, order) == [i \in 1..Len(matching) |-> matching[order[i]]]

\* the dead_people list, in the order the rows are scanned
DeadPeople(people, actors_by_id) ==
    [i \in 1..Len(people) |->
        [person_id |-> people[i].person_id,
         birth     |-> people[i].birth,
         death     |-> people[i].death,
         character |-> Str(actors_by_id[people[i].person_id].currentRole),
         name      |-> people[i].name]]

\* x placed behind the elements whose death is not smaller than x's
RECURSIVE InsertDesc(_, _)
InsertDesc(sorted, x) ==
    IF sorted = <<>> THEN <<x>>
    ELSE IF LexLess(Head(sorted).death, x.death)
         THEN <<x>> \o sorted
         ELSE <<Head(sorted)>> \o InsertDesc(Tail(sorted), x)

RECURSIVE InsertAsc(_, _)
InsertAsc(sorted, x) ==
    IF sorted = <<>> THEN <<x>>
    ELSE IF LexLess(x.death, Head(sorted).death)
         THEN <<x>> \o sorted
         ELSE <<Head(sorted)>> \o InsertAsc(Tail(sorted), x)

RECURSIVE SortedAscending(_)
SortedAscending(list) ==
    IF list = <<>> THEN <<>>
    ELSE InsertAsc(SortedAscending(SubSeq(list, 1, Len(list) - 1)), list[Len(list)])

\* sorted(dead_people, key=lambda p: p["death"], reverse=True): stable
RECURSIVE Sorted(_)
Sorted(list) ==
    IF list = <<>> THEN <<>>
    ELSE InsertDesc(Sorted(SubSeq(list, 1, Len(list) - 1)), list[Len(list)])

NotFound(prefix, arg) ==
    [status |-> 404, returns |-> "HTTPException",
     detail |-> [text |-> prefix, arg |-> arg], body |-> <<>>, queried |-> FALSE]

\* died(movie_id), given the provider's answer, storage and the scan order;
\* "Movie not found: {}".format(movie_id, 404) is the text with movie_id in it;
\* a SELECT on a table that is not there raises
DiedResponse(movie_id, movie, exists, table, order) ==
    IF movie.isNone THEN NotFound("Movie not found: ", movie_id)
    ELSE IF NoCast(movie) THEN NotFound("No cast reported", <<>>)
    ELSE IF ~exists
    THEN [status |-> 500, returns |-> "ProgrammingError",
          detail |-> [text |-> "", arg |-> <<>>], body |-> <<>>, queried |-> TRUE]
    ELSE LET actors_by_id == ActorsById(movie.cast)
             people == Scanned(SelectIn(table, DOMAIN actors_by_id), order)
         IN  [status |-> 200, returns |-> "list",
              detail |-> [text |-> "", arg |-> <<>>],
              body |-> Sorted(DeadPeople(people, actors_by_id)), queried |-> TRUE]

AnyKind(kind) == TRUE

\* if movie.get("kind") == "movie"
IsMovieKind(kind) == kind = "movie"

\* search(movie_title), given the provider's answer
SearchResponse(results) ==
    LET movies == SelectSeq(results, LAMBDA movie : IsMovieKind(movie.kind))
    IN  [status |-> 200, returns |-> "list",
         detail |-> [text |-> "", arg |-> <<>>],
         body |-> [i \in 1..Len(movies) |->
                      [value |-> movies[i].title, id |-> movies[i].movieID]],
         queried |-> FALSE]

\* the rows stored before the loader run in progress, if one is
PriorRows == IF Terminated THEN <<>> ELSE before.rows

\* the requests of these specifications are handled one after the other
NoRequest == [op |-> "none"]

Died(movie_id, movie) ==
    /\ req = NoRequest
    /\ \E order \in ScanOrders(IF movie.isNone \/ NoCast(movie) \/ ~tableExists THEN 0
                               ELSE Len(SelectIn(dead_actors, DOMAIN ActorsById(movie.cast)))) :
          resp' = DiedResponse(movie_id, movie, tableExists, dead_actors, order)
    /\ req' = [op |-> "died", arg |-> movie_id, movie |-> movie, results |-> <<>>,
               table |-> dead_actors, prior |-> PriorRows]
    /\ UNCHANGED <<storageVars, loaderVars, schedVars>>

Search(movie_title, results) ==
    /\ req = NoRequest
    /\ resp' = SearchResponse(results)
    /\ req' = [op |-> "search", arg |-> movie_title, movie |-> NoMovie, results |-> results,
               table |-> <<>>, prior |-> <<>>]
    /\ UNCHANGED <<storageVars, loaderVars, schedVars>>

\* the response is sent; the service keeps nothing of the request
Deliver ==
    /\ req # NoRequest
    /\ req' = NoRequest
    /\ resp' = [status |-> 0]
    /\ UNCHANGED <<storageVars, loaderVars, schedVars>>

---------------------------------------------------------------------------
(* What the provider answers, and the tables the service finds *)

Role(name) == [name |-> name]

Id01 == <<48, 49>>
Id1  == <<49>>
Id2  == <<50>>
Id3  == <<51>>
Id4  == <<52>>
Id9  == <<57>>

SampleActors ==
    { [id |-> Id01, currentRole |-> Role(<<72>>)],
      [id |-> Id1,  currentRole |-> Role(<<73>>)],
      [id |-> Id2,  currentRole |-> Role(<<74>>)],
      [id |-> Id3,  currentRole |-> Role(<<75>>)],
      [id |-> Id4,  currentRole |-> Role(<<76>>)],
      [id |-> Id9,  currentRole |-> Role(<<77>>)] }

Movies ==
    {NoMovie, Movie(FALSE, <<>>)} \cup {Movie(TRUE, c) : c \in SeqsUpTo(SampleActors, MaxCast)}

MovieIds == {<<48, 48, 55, 51>>, Id9}

\* rows as the loaders leave them: one per person_id, a death year that is not blank
StoredPeople ==
    << [person_id |-> 1, birth |-> Y1899, death |-> Y1987, name |-> Fred],
       [person_id |-> 2, birth |-> Empty, death |-> Y1987, name |-> Ginger],
       [person_id |-> 3, birth |-> Y1899, death |-> Y987,  name |-> Bob],
       [person_id |-> 4, birth |-> Y1899, death |-> Y1995, name |-> Alan] >>

RECURSIVE Pick(_, _)
Pick(S, i) ==
    IF i > Len(StoredPeople) THEN <<>>
    ELSE (IF i \in S THEN <<StoredPeople[i]>> ELSE <<>>) \o Pick(S, i + 1)

Tables ==
    {Pick(S, 1) : S \in {T \in SUBSET (1..Len(StoredPeople)) : Cardinality(T) <= MaxStored}}

SampleResults ==
    { [movieID |-> <<48, 48, 55, 51>>, kind |-> "movie",      title |-> <<74>>],
      [movieID |-> Id9,                kind |-> "movie",      title |-> <<75>>],
      [movieID |-> Id2,                kind |-> "tv series",  title |-> <<74>>],
      [movieID |-> Id3,                kind |-> "video game", title |-> <<76>>] }

Titles2 == {<<74>>, <<75>>}

InitService ==
    /\ tableExists = TRUE
    /\ dead_actors \in Tables
    /\ variant = "incremental"
    /\ lpc = "idle"
    /\ file = <<>>
    /\ idx = 0
    /\ rows = <<>>
    /\ error = "none"
    /\ before = [exists |-> FALSE, rows |-> <<>>]
    /\ prev = [variant |-> "none", file |-> <<>>]
    /\ rerun = FALSE
    /\ req = NoRequest
    /\ resp = [status |-> 0]
    /\ rkind = <<>>
    /\ rpc = <<>>
    /\ loop = 0

ServiceNext ==
    \/ \E movie_id \in MovieIds, movie \in Movies : Died(movie_id, movie)
    \/ \E movie_title \in Titles2, results \in SeqsUpTo(SampleResults, MaxResults) :
          Search(movie_title, results)
    \/ Deliver

\* the two handlers, over the tables the loaders can leave
SpecService == InitService /\ [][ServiceNext]_vars

---------------------------------------------------------------------------
(* A loader run with lookups in between *)

ReloadMovies ==
    { Movie(TRUE, <<[id |-> Id01, currentRole |-> Role(<<72>>)]>>),
      Movie(TRUE, <<[id |-> Id3, currentRole |-> Role(<<75>>)],
                    [id |-> Id1, currentRole |-> Role(<<73>>)]>>) }

ReloadNext ==
    \/ LoaderNext
    \/ \E movie \in ReloadMovies : Died(Id9, movie)
    \/ Deliver

\* nothing has run: no table, no loader run, no request
InitLoader ==
    /\ tableExists = FALSE
    /\ dead_actors = <<>>
    /\ variant = "incremental"
    /\ lpc = "idle"
    /\ file = <<>>
    /\ idx = 0
    /\ rows = <<>>
    /\ error = "none"
    /\ before = [exists |-> FALSE, rows |-> <<>>]
    /\ prev = [variant |-> "none", file |-> <<>>]
    /\ rerun = FALSE
    /\ req = NoRequest
    /\ resp = [status |-> 0]
    /\ rkind = <<>>
    /\ rpc = <<>>
    /\ loop = 0

\* the loader alone
SpecLoader == InitLoader /\ [][LoaderNext]_vars

SpecReload == InitLoader /\ [][ReloadNext]_vars

---------------------------------------------------------------------------
(* How the server runs the handlers: `async def` endpoints on the event    *)
(* loop, `def` endpoints on a worker thread                                *)

Requests == 1..NumRequests

Arrive(r, kind) ==
    /\ rpc[r] = "idle"
    /\ rpc' = [rpc EXCEPT ![r] = "arrived"]
    /\ rkind' = [rkind EXCEPT ![r] = kind]
    /\ UNCHANGED <<loop, storageVars, loaderVars, serviceVars>>

\* async def died: the event loop starts the coroutine and enters
\* i.get_movie(...), a synchronous call
StartDied(r) ==
    /\ rkind[r] = "died" /\ rpc[r] = "arrived"
    /\ loop = 0
    /\ loop' = r
    /\ rpc' = [rpc EXCEPT ![r] = "provider"]
    /\ UNCHANGED <<rkind, storageVars, loaderVars, serviceVars>>

\* i.get_movie returns; the coroutine goes on, never awaiting
ProviderReturnsDied(r) ==
    /\ rkind[r] = "died" /\ rpc[r] = "provider"
    /\ rpc' = [rpc EXCEPT ![r] = "handling"]
    /\ UNCHANGED <<rkind, loop, storageVars, loaderVars, serviceVars>>

\* the coroutine returns or raises: the event loop is free again
FinishDied(r) ==
    /\ rkind[r] = "died" /\ rpc[r] = "handling"
    /\ loop' = 0
    /\ rpc' = [rpc EXCEPT ![r] = "done"]
    /\ UNCHANGED <<rkind, storageVars, loaderVars, serviceVars>>

\* def search: the event loop hands the call to a worker thread, which enters
\* i.search_movie(...)
StartSearch(r) ==
    /\ rkind[r] = "search" /\ rpc[r] = "arrived"
    /\ loop = 0
    /\ rpc' = [rpc EXCEPT ![r] = "provider"]
    /\ UNCHANGED <<rkind, loop, storageVars, loaderVars, serviceVars>>

\* i.search_movie returns in the worker thread, which builds the list
ProviderReturnsSearch(r) ==
    /\ rkind[r] = "search" /\ rpc[r] = "provider"
    /\ rpc' = [rpc EXCEPT ![r] = "respond"]
    /\ UNCHANGED <<rkind, loop, storageVars, loaderVars, serviceVars>>

\* the event loop sends the worker's result
RespondSearch(r) ==
    /\ rkind[r] = "search" /\ rpc[r] = "respond"
    /\ loop = 0
    /\ rpc' = [rpc EXCEPT ![r] = "done"]
    /\ UNCHANGED <<rkind, loop, storageVars, loaderVars, serviceVars>>

\* what request r's own handling does next, other than waiting for its provider
Proceed(r) == StartDied(r) \/ FinishDied(r) \/ StartSearch(r) \/ RespondSearch(r)

InitSched ==
    /\ tableExists = TRUE
    /\ dead_actors = <<>>
    /\ variant = "incremental"
    /\ lpc = "idle"
    /\ file = <<>>
    /\ idx = 0
    /\ rows = <<>>
    /\ error = "none"
    /\ before = [exists |-> FALSE, rows |-> <<>>]
    /\ prev = [variant |-> "none", file |-> <<>>]
    /\ rerun = FALSE
    /\ req = NoRequest
    /\ resp = [status |-> 0]
    /\ rkind = [r \in Requests |-> "none"]
    /\ rpc = [r \in Requests |-> "idle"]
    /\ loop = 0

SchedNext ==
    \/ \E r \in Requests, kind \in {"search", "died"} : Arrive(r, kind)
    \/ \E r \in Requests : StartDied(r)
    \/ \E r \in Requests : ProviderReturnsDied(r)
    \/ \E r \in Requests : FinishDied(r)
    \/ \E r \in Requests : StartSearch(r)
    \/ \E r \in Requests : ProviderReturnsSearch(r)
    \/ \E r \in Requests : RespondSearch(r)

SpecSched == InitSched /\ [][SchedNext]_vars

---------------------------------------------------------------------------
(* Claims about the loader *)

Stored == {dead_actors[i] : i \in 1..Len(dead_actors)}

StoredBefore == {before.rows[i] : i \in 1..Len(before.rows)}

\* the record as the loop sees it
AsRow(fields) == SubstituteSentinel(DictRow(fields))

HasDeathField(fields) == ~StripRaises(AsRow(fields))

\* the record passes the filter of the loop
Kept(fields) == HasDeathField(fields) /\ Keep(AsRow(fields))

\* the records the loop is past
Passed == IF lpc \in {"loop", "done", "failed"} /\ idx >= 1 THEN 1..(idx - 1) ELSE {}

\* the run's inserts are committed: each one at once (incremental), all at the
\* end (destructive)
Committed(k) ==
    /\ k \in Passed
    /\ variant = "destructive" => lpc = "done"

C2_RerunChangesNothing ==
    rerun /\ Terminated =>
        /\ dead_actors = before.rows
        /\ tableExists = before.exists

\* the second run over a dataset naming one person twice, the table not empty
C2_Witness ==
    /\ rerun /\ lpc = "done" /\ Len(file) = 2
    /\ Kept(file[1]) /\ Kept(file[2])
    /\ Values(AsRow(file[1])).person_id = Values(AsRow(file[2])).person_id
    /\ Len(dead_actors) >= 1

\* C3 as claimed: after a run the table holds at most one row per person_id, and
\* every row stored before the run is still there with its birth, death and name.
C3_AsClaimed ==
    lpc \in {"done", "failed"} =>
        /\ \A i, j \in 1..Len(dead_actors) :
              dead_actors[i].person_id = dead_actors[j].person_id => i = j
        /\ \A p \in StoredBefore : p \in Stored

\* C9 as claimed: no record makes the loader raise.
C9_AsClaimed == error # "AttributeError"

---------------------------------------------------------------------------
(* Claims about a loader run with lookups in between *)

\* C8 as claimed: at every point of a run the rows stored before it are still
\* stored, and a lookup made during the run finds every person of the cast who
\* was stored before the run.
C8_AsClaimed ==
    /\ ~Terminated => \A p \in StoredBefore : p \in Stored
    /\ req # NoRequest =>
          \A i \in 1..Len(req.prior) :
             req.prior[i].person_id \in DOMAIN ActorsById(req.movie.cast) =>
                /\ resp.status = 200
                /\ \E n \in 1..Len(resp.body) :
                      resp.body[n].person_id = req.prior[i].person_id

---------------------------------------------------------------------------
(* Claims about the handlers *)

Body == resp.body

CastIds == {ToInteger(req.movie.cast[i].id) : i \in 1..Len(req.movie.cast)}

Resolved == req # NoRequest /\ req.op = "died" /\ ~req.movie.isNone /\ req.movie.hasCast

\* C4: the list a lookup returns is in descending string order of death.
C4_SortedByDeathDescending ==
    req # NoRequest /\ req.op = "died" /\ resp.returns = "list" =>
        \A i, j \in 1..Len(Body) : i < j => ~LexLess(Body[i].death, Body[j].death)

\* three people, "987" ahead of "1995" ahead of "1987"
C4_Witness ==
    /\ req # NoRequest /\ req.op = "died" /\ resp.returns = "list"
    /\ Len(Body) = 3
    /\ Body[1].death = Y987 /\ Body[2].death = Y1995 /\ Body[3].death = Y1987

\* C5: a lookup answers 404 exactly when the provider gave no movie (the detail
\* then names the movie id asked for) or a movie without cast data; then storage
\* was not queried and no list is returned; otherwise a list is returned.
C5_NotFoundExactly ==
    req # NoRequest /\ req.op = "died" =>
        /\ resp.status = 404 <=> (req.movie.isNone \/ ~req.movie.hasCast)
        /\ req.movie.isNone =>
              resp.detail = [text |-> "Movie not found: ", arg |-> req.arg]
        /\ resp.status = 404 => ~resp.queried /\ resp.returns = "HTTPException"
        /\ resp.status # 404 => resp.status = 200 /\ resp.returns = "list"

\* a movie id the provider does not resolve
C5_Witness ==
    /\ req # NoRequest /\ req.op = "died" /\ req.movie.isNone
    /\ resp.status = 404 /\ resp.detail.arg = Id9

\* C6: for a movie with cast data the list has one record for each stored row
\* whose person_id is a cast id, and no other; the record carries the row's
\* birth, death and name and the character of the cast entry with that id (the
\* last one, when the cast lists the id twice); the list is empty when no cast
\* id is stored.
C6_OneRecordPerDeadCastMember ==
    Resolved =>
        /\ resp.status = 200 /\ resp.returns = "list"
        /\ \A i \in 1..Len(req.table) :
              req.table[i].person_id \in CastIds =>
                 \E n \in 1..Len(Body) :
                    /\ Body[n].person_id = req.table[i].person_id
                    /\ Body[n].birth = req.table[i].birth
                    /\ Body[n].death = req.table[i].death
                    /\ Body[n].name = req.table[i].name
                    /\ \A m \in 1..Len(Body) :
                          Body[m].person_id = Body[n].person_id => m = n
        /\ \A n \in 1..Len(Body) :
              /\ Body[n].person_id \in CastIds
              /\ Body[n].person_id \in PersonIds(req.table)
              /\ \E c \in 1..Len(req.movie.cast) :
                    /\ ToInteger(req.movie.cast[c].id) = Body[n].person_id
                    /\ Body[n].character = req.movie.cast[c].currentRole.name
                    /\ \A d \in (c + 1)..Len(req.movie.cast) :
                          ToInteger(req.movie.cast[d].id) # Body[n].person_id
        /\ CastIds \cap PersonIds(req.table) = {} => Body = <<>>

\* a cast naming person 1 twice, one member dead and one not stored
C6_Witness ==
    /\ Resolved /\ Len(req.movie.cast) = 3
    /\ req.movie.cast[1].id = Id01 /\ req.movie.cast[2].id = Id1
    /\ req.movie.cast[3].id = Id9
    /\ Len(Body) = 1 /\ Body[1].person_id = 1 /\ Body[1].character = <<73>>

MoviePositions == {i \in 1..Len(req.results) : req.results[i].kind = "movie"}

\* C7: search returns one record for each provider result of kind "movie", in
\* the provider's order, and none for any other result: the empty list when no
\* result is a movie.
C7_OnlyMovies ==
    req # NoRequest /\ req.op = "search" =>
        /\ resp.status = 200
        /\ Len(Body) = Cardinality(MoviePositions)
        /\ \A i \in MoviePositions :
              LET n == Cardinality({h \in MoviePositions : h <= i})
              IN  Body[n] = [value |-> req.results[i].title, id |-> req.results[i].movieID]
        /\ MoviePositions = {} => Body = <<>>

\* a movie, a series and a movie
C7_Witness ==
    /\ req # NoRequest /\ req.op = "search" /\ Len(req.results) = 3
    /\ req.results[1].kind = "movie" /\ req.results[2].kind = "tv series"
    /\ req.results[3].kind = "movie"
    /\ Len(Body) = 2

---------------------------------------------------------------------------
(* Claims about the scheduling *)

\* C10 as claimed: while a request waits for its provider call, every other
\* request that has arrived can go on with its own handling.
C10_AsClaimed ==
    \A r, o \in Requests :
        r # o /\ rpc[r] = "provider" /\ rpc[o] \in {"arrived", "handling", "respond"} =>
            ENABLED Proceed(o)

=============================================================================
